---- MODULE Spec2Model ----
(***************************************************************************)
(* Buffer pool manager with a clock replacer (bustub).                     *)
(*                                                                         *)
(* The replacer (clock_replacer.cpp) and the pool manager                  *)
(* (buffer_pool_manager.cpp) are modelled handler by handler.  A handler   *)
(* is an operator from the state before the call to the SET of outcomes    *)
(* the call can have: one outcome where the C++ is defined, several where  *)
(* it is undefined (erase(end()), front() of an empty list, an index of    *)
(* -1): the process dies ("crashed"), or the library call does nothing and *)
(* the handler runs on ("undefined", which sticks to the run from then     *)
(* on).  A Victim() whose loop cannot end is "hung".                       *)
(*                                                                         *)
(* Spec follows every pool call on a pool of PoolSize frames for MaxCalls  *)
(* calls; RoundTripSpec follows fetch, new, unpin and writes on a pool of  *)
(* SmallPool frames for DeepCalls calls; ReplacerSpec calls the replacer   *)
(* directly.  Callers pin before they write and unpin what they pinned.    *)
(***************************************************************************)
EXTENDS Integers, Sequences, FiniteSets, TLC

\* ---------------------------------------------------------------- bounds
PoolSize == 2         \* pool_size_ / num_pages of the pool and replacer explored in breadth
NumPages == 3         \* page ids are 0 .. NumPages-1
NumOld == 1           \* page ids 0 .. NumOld-1 are on disk when the pool is built
MaxByte == 1          \* a page's content is one value 0 .. MaxByte (0 = zeroed)
MaxPin == 2           \* pin_count_ is not raised above this
MaxFree == 2          \* free_list_ is not grown beyond this length
MaxDebt == 1          \* cur_size, cur_size_, pin_count_ are not lowered below -MaxDebt
MaxCalls == 7         \* calls made on a pool of PoolSize frames
SmallPool == 1        \* pool_size_ of the pool explored in depth
DeepCalls == 10       \* calls made on a pool of SmallPool frames
NumThreads == 2       \* threads that call the pool at the same time
RaceCalls == 4        \* calls made on a pool called from several threads
ClockSize == 3        \* slots of the replacer that is called directly
ClockCalls == 8       \* calls made on that replacer
NumBuckets == 1       \* num_buckets of the hash table: its block pages
HashCalls == 6        \* calls made on the hash table and its pool

\* ---------------------------------------------------- program constants
INVALID_PAGE_ID == -1
INT_MAX == 2147483647
EMPTY == -1           \* the -1 that fills buckets and ref_bits, and "no slot"

PageIds == 0 .. (NumPages - 1)
Threads == 1 .. NumThreads
Bytes == 0 .. MaxByte

VARIABLES
  replacer,       \* ClockReplacer: cur_size, clock_hand, buckets, ref_bits, map, recent_pinned
  pages,          \* pages_[frame]: page_id_, pin_count_, is_dirty_, data_
  page_table,     \* page_table_: page id -> frame id
  free_list,      \* free_list_
  cur_size_,      \* BufferPoolManager::cur_size_
  pool_size_,     \* BufferPoolManager::pool_size_
  disk,           \* the disk collaborator: page id -> content
  next_page_id,   \* the disk collaborator's allocation counter
  status,         \* "ok", "undefined", "crashed" or "hung"
  last,           \* the last call: op, page, dirty, frame, ok
  io,             \* the disk calls made by the last call, in order
  held,           \* callers' view: held[p] = pins taken on p and not yet given back
  heldFrame,      \* callers' view: the frame a pin on p was answered with
  pending,        \* callers' view: content written to p and not yet unpinned dirty
  expected,       \* callers' view: content written to p and unpinned dirty
  eligible,       \* replacer callers' view: unpinned since last pinned or evicted
  onDisk,         \* callers' view: page ids allocated and not deleted
  calls,          \* number of calls made so far
  limit,          \* number of calls explored
  threads,        \* per thread: where it is inside FetchPageImpl, and its locals
  table           \* LinearProbeHashTable: header_page_id_, the header's block page ids

vars == <<replacer, pages, page_table, free_list, cur_size_, pool_size_, disk, next_page_id,
          status, last, io, held, heldFrame, pending, expected, eligible, onDisk, calls, limit, threads, table>>

poolVars == <<pages, page_table, free_list, cur_size_, pool_size_, disk, next_page_id,
              io, held, heldFrame, pending, expected, onDisk>>

\* ------------------------------------------------------------- helpers
Min(S) == CHOOSE x \in S : \A y \in S : x <= y

\* a call that crashed or hung has no state after it
Dead(st) == st \in {"crashed", "hung"}

\* the status after two steps with statuses a and b
Join(a, b) ==
  IF Dead(a) THEN a ELSE IF Dead(b) THEN b
  ELSE IF "undefined" \in {a, b} THEN "undefined" ELSE "ok"

\* std::unordered_map: m with key k erased, m with k set to v
MapErase(m, k) == [x \in (DOMAIN m) \ {k} |-> m[x]]
MapPut(m, k, v) == [x \in (DOMAIN m) \cup {k} |-> IF x = k THEN v ELSE m[x]]

\* ------------------------------------------------------- ClockReplacer
\* ClockReplacer::ClockReplacer
ClockReplacer(num_pages) ==
  [capacity |-> num_pages, cur_size |-> 0, clock_hand |-> 0,
   buckets |-> [i \in 0 .. (num_pages - 1) |-> EMPTY],
   ref_bits |-> [i \in 0 .. (num_pages - 1) |-> EMPTY],
   map |-> <<>>, recent_pinned |-> {}]

\* the indices of buckets and ref_bits
Slots(r) == 0 .. (r.capacity - 1)

\* a slot Victim's loop stops at: occupied and not tombstoned
Live(r, i) == r.buckets[i] # EMPTY /\ r.buckets[i] \notin r.recent_pinned

find_next_available(r, start) ==
  LET ok == {i \in 0 .. (r.capacity - 1) :
               LET s == (i + start) % r.capacity
               IN r.buckets[s] = EMPTY \/ r.buckets[s] \in r.recent_pinned}
  IN IF ok = {} THEN EMPTY ELSE (Min(ok) + start) % r.capacity

\* map.erase(map.find(f)): undefined when f is no key
EraseFrame(r, f) ==
  IF f \in DOMAIN r.map
    THEN {[r |-> [r EXCEPT !.map = MapErase(@, f)], st |-> "ok"]}
    ELSE {[r |-> r, st |-> "undefined"], [r |-> r, st |-> "crashed"]}

\* lines 57-68: no victim after the sweep, take the smallest frame id in buckets
VictimFallback(r) ==
  LET used == {r.buckets[i] : i \in {j \in Slots(r) : r.buckets[j] # EMPTY}}
      smallest == IF used = {} THEN INT_MAX ELSE Min(used)
  IN {[r |-> [e.r EXCEPT !.cur_size = @ - 1], ok |-> TRUE, frame |-> smallest,
       st |-> e.st] : e \in EraseFrame(r, smallest)}

\* lines 45-54: the slot at the hand holds the victim
VictimFound(r, h) ==
  LET ans == r.buckets[h]
      r1 == [r EXCEPT !.buckets[h] = EMPTY, !.clock_hand = h + 1]
  IN {[r |-> [e.r EXCEPT !.cur_size = @ - 1], ok |-> TRUE, frame |-> ans,
       st |-> e.st] : e \in EraseFrame(r1, ans)}

\* lines 30-55: the sweep
RECURSIVE VictimLoop(_, _)
VictimLoop(r, sweep_cnt) ==
  IF ~(sweep_cnt < r.cur_size) THEN VictimFallback(r)
  ELSE LET h == r.clock_hand % r.capacity IN
    IF ~Live(r, h)
      THEN VictimLoop([r EXCEPT !.clock_hand = h + 1], sweep_cnt)
    ELSE IF r.ref_bits[h] = 1
      THEN VictimLoop([r EXCEPT !.ref_bits[h] = 0, !.clock_hand = h + 1], sweep_cnt + 1)
    ELSE VictimFound(r, h)

\* ClockReplacer::Victim.  With cur_size > 0 and no live slot the loop only
\* advances the hand and never ends.
Victim(r) ==
  IF r.cur_size = 0
    THEN {[r |-> r, ok |-> FALSE, frame |-> EMPTY, st |-> "ok"]}
  ELSE IF r.cur_size > 0 /\ \A i \in Slots(r) : ~Live(r, i)
    THEN {[r |-> r, ok |-> FALSE, frame |-> EMPTY, st |-> "hung"]}
  ELSE VictimLoop(r, 0)

\* ClockReplacer::Pin
Pin(r, frame_id) ==
  IF frame_id \notin DOMAIN r.map THEN r
  ELSE [r EXCEPT !.recent_pinned = @ \cup {frame_id}, !.cur_size = @ - 1]

\* ref_bits[slot] = bit and buckets[slot] = f; slot -1 is out of the vectors
SetBit(r, slot, bit) ==
  IF slot \in Slots(r) THEN {[r |-> [r EXCEPT !.ref_bits[slot] = bit], st |-> "ok"]}
  ELSE {[r |-> r, st |-> "undefined"], [r |-> r, st |-> "crashed"]}

SetSlot(r, slot, f) ==
  IF slot \in Slots(r)
    THEN {[r |-> [r EXCEPT !.buckets[slot] = f, !.ref_bits[slot] = 0], st |-> "ok"]}
  ELSE {[r |-> r, st |-> "undefined"], [r |-> r, st |-> "crashed"]}

\* ClockReplacer::Unpin
Unpin(r, frame_id) ==
  IF frame_id > r.capacity THEN {[r |-> r, st |-> "ok"]}
  ELSE IF frame_id \notin DOMAIN r.map THEN
    LET slot == find_next_available(r, r.clock_hand)
    IN {[r |-> [e.r EXCEPT !.map = MapPut(@, frame_id, slot), !.cur_size = @ + 1],
         st |-> e.st] : e \in SetSlot(r, slot, frame_id)}
  ELSE IF frame_id \in r.recent_pinned THEN
    LET r1 == [r EXCEPT !.recent_pinned = @ \ {frame_id}]
    IN {[r |-> [e.r EXCEPT !.cur_size = @ + 1], st |-> e.st] :
           e \in SetBit(r1, r.map[frame_id], 1)}
  ELSE {[r |-> r, st |-> "ok"]}

\* ClockReplacer::Size returns the int cur_size as a size_t: a negative count
\* wraps to a huge one (size_t is wider than the checker's integers, so the
\* wrap is taken modulo INT_MAX + 1)
Size(r) == IF r.cur_size < 0 THEN (r.cur_size + INT_MAX) + 1 ELSE r.cur_size

\* ------------------------------------------------------------ the state
NoCall == [op |-> "none", page |-> INVALID_PAGE_ID, dirty |-> FALSE,
           frame |-> EMPTY, ok |-> FALSE, hit |-> FALSE]

Call(op, page, dirty, frame, ok) ==
  [op |-> op, page |-> page, dirty |-> dirty, frame |-> frame, ok |-> ok,
   hit |-> FALSE]

\* ---------------------------------------------------- disk collaborator
WritePage(d, page_id, data) == [d EXCEPT ![page_id] = data]
ReadPage(d, page_id) == d[page_id]

DiskCall(op, page_id, data) == [op |-> op, page |-> page_id, data |-> data]

\* --------------------------------------------------- BufferPoolManager
\* the manager's fields and its collaborators' state, as one value
Pool ==
  [pages |-> pages, page_table |-> page_table, free_list |-> free_list,
   cur_size_ |-> cur_size_, pool_size_ |-> pool_size_, replacer |-> replacer, disk |-> disk,
   next_page_id |-> next_page_id]

\* one outcome of a call: the state after it, what it returned (a frame, or
\* EMPTY for nullptr; ok for a bool), the page id it is about, whether the
\* page table had the page, its disk calls, and "ok", "crashed" or "hung"
Out(s, page, frame, ok, hit, dio, st) ==
  [s |-> s, page |-> page, frame |-> frame, ok |-> ok, hit |-> hit, io |-> dio,
   st |-> st]

\* cur_size_ < pool_size_ is an unsigned comparison: a cur_size_ below zero is huge
LtPool(c, n) == c >= 0 /\ c < n

\* page_table_.erase(page_table_.find(page_id)): undefined when page_id is no key
TableErase(s, page_id) ==
  IF page_id \in DOMAIN s.page_table
    THEN {[s |-> [s EXCEPT !.page_table = MapErase(@, page_id)], st |-> "ok"]}
    ELSE {[s |-> s, st |-> "undefined"], [s |-> s, st |-> "crashed"]}

\* a FlushPageImpl that skips the write of a clean page
FlushPageIfDirty(s, page_id) ==
  IF page_id \notin DOMAIN s.page_table
    THEN [s |-> s, ok |-> FALSE, io |-> <<>>]
  ELSE IF ~s.pages[s.page_table[page_id]].is_dirty
    THEN [s |-> s, ok |-> TRUE, io |-> <<>>]
  ELSE LET data == s.pages[s.page_table[page_id]].data
       IN [s |-> [s EXCEPT !.disk = WritePage(@, page_id, data)], ok |-> TRUE,
           io |-> <<DiskCall("write", page_id, data)>>]

\* BufferPoolManager::FlushPageImpl
FlushPageImpl(s, page_id) ==
  IF page_id \notin DOMAIN s.page_table
    THEN [s |-> s, ok |-> FALSE, io |-> <<>>]
    ELSE LET data == s.pages[s.page_table[page_id]].data
         IN [s |-> [s EXCEPT !.disk = WritePage(@, page_id, data)], ok |-> TRUE,
             io |-> <<DiskCall("write", page_id, data)>>]

\* BufferPoolManager::update_page_metadata
update_page_metadata(s, frame_id, page_id) ==
  [s EXCEPT !.page_table = MapPut(@, page_id, frame_id),
            !.pages[frame_id] = [page_id |-> page_id, pin_count |-> 1,
                                 is_dirty |-> FALSE, data |-> 0],
            !.replacer = Pin(@, frame_id)]

\* BufferPoolManager::reset_page_metadata
reset_page_metadata(s, frame_id) ==
  [s EXCEPT !.pages[frame_id] = [page_id |-> INVALID_PAGE_ID, pin_count |-> 0,
                                 is_dirty |-> FALSE, data |-> 0]]

\* FetchPageImpl lines 57-63: the free list first, then the replacer
PickFrame(s) ==
  IF s.free_list # <<>>
    THEN {[s |-> [s EXCEPT !.free_list = Tail(@)], f |-> Head(s.free_list), st |-> "ok"]}
    ELSE {[s |-> [s EXCEPT !.replacer = v.r],
           f |-> IF v.ok THEN v.frame ELSE EMPTY, st |-> v.st] : v \in Victim(s.replacer)}

\* a FetchPageImpl that drops the victim's bytes
FlushVictimNever(s, f) == [s |-> s, ok |-> FALSE, io |-> <<>>]

\* FetchPageImpl lines 69-73: a dirty victim is written back
FlushVictim(s, f) ==
  IF s.pages[f].is_dirty THEN FlushPageImpl(s, s.pages[f].page_id)
  ELSE [s |-> s, ok |-> FALSE, io |-> <<>>]

\* FetchPageImpl lines 66-84, with the frame picked
FetchMiss(s, page_id, f) ==
  IF f = EMPTY THEN {Out(s, page_id, EMPTY, FALSE, FALSE, <<>>, "ok")}
  ELSE IF f \notin DOMAIN s.pages THEN {Out(s, page_id, EMPTY, FALSE, FALSE, <<>>, "crashed")}
  ELSE
    LET replace_page_id == s.pages[f].page_id
        fl == FlushVictim(s, f)
    IN {IF Dead(e.st) THEN Out(s, page_id, EMPTY, FALSE, FALSE, <<>>, e.st)
        ELSE LET s1 == [e.s EXCEPT !.page_table = MapPut(@, page_id, f)]
                 s2 == update_page_metadata(s1, f, page_id)
                 s3 == [s2 EXCEPT !.pages[f].data = ReadPage(s2.disk, page_id)]
             IN Out(s3, page_id, f, TRUE, FALSE,
                    fl.io \o <<DiskCall("read", page_id, s3.pages[f].data)>>, e.st)
        : e \in TableErase(fl.s, replace_page_id)}

\* BufferPoolManager::FetchPageImpl
FetchPageImpl(s, page_id) ==
  IF page_id \in DOMAIN s.page_table
    THEN LET frame_id == s.page_table[page_id]
         IN {Out([s EXCEPT !.pages[frame_id].pin_count = @ + 1], page_id, frame_id,
                 TRUE, TRUE, <<>>, "ok")}
    ELSE UNION {IF Dead(k.st)
                  THEN {Out(s, page_id, EMPTY, FALSE, FALSE, <<>>, k.st)}
                  ELSE {[o EXCEPT !.st = Join(k.st, @)] : o \in FetchMiss(k.s, page_id, k.f)}
                : k \in PickFrame(s)}

\* UnpinPageImpl lines 89-103: page_id has an entry in the page table
UnpinResident(s, page_id, is_dirty) ==
  LET f == s.page_table[page_id]
      s1 == [s EXCEPT !.pages[f].pin_count = @ - 1]
      reg == IF s1.pages[f].pin_count = 0
               THEN {[s |-> [s1 EXCEPT !.replacer = u.r, !.free_list = Append(@, f)],
                      st |-> u.st] : u \in Unpin(s1.replacer, f)}
               ELSE {[s |-> s1, st |-> "ok"]}
  IN {IF Dead(x.st) THEN Out(s, page_id, EMPTY, FALSE, TRUE, <<>>, x.st)
      ELSE LET s2 == [x.s EXCEPT !.pages[f].is_dirty = @ \/ is_dirty]
               fl == IF s2.pages[f].is_dirty THEN FlushPageImpl(s2, page_id)
                     ELSE [s |-> s2, ok |-> FALSE, io |-> <<>>]
           IN Out(fl.s, page_id, f, TRUE, TRUE, fl.io, x.st)
      : x \in reg}

\* BufferPoolManager::UnpinPageImpl
UnpinPageImpl(s, page_id, is_dirty) ==
  IF page_id = INVALID_PAGE_ID \/ page_id \notin DOMAIN s.page_table
    THEN {Out(s, page_id, EMPTY, FALSE, FALSE, <<>>, "ok")}
    ELSE UnpinResident(s, page_id, is_dirty)

\* a thread that is in no call
Idle == [pc |-> "idle", page |-> INVALID_PAGE_ID, frame |-> EMPTY, pin |-> 0]

\* BufferPoolManager::BufferPoolManager with pool_size n, and callers that have
\* made no call and will make k
\* no hash table has been constructed on the pool
NoTable == [header_page_id_ |-> INVALID_PAGE_ID, blocks |-> <<>>]

BufferPoolManager(n, k) ==
  /\ threads = [t \in Threads |-> Idle]
  /\ table = NoTable
  /\ pool_size_ = n
  /\ limit = k
  /\ replacer = ClockReplacer(n)
  /\ pages = [f \in 0 .. (n - 1) |-> [page_id |-> INVALID_PAGE_ID, pin_count |-> 0,
                                    is_dirty |-> FALSE, data |-> 0]]
  /\ page_table = <<>>
  /\ free_list = [i \in 1 .. n |-> i - 1]
  /\ cur_size_ = 0
  /\ disk = [p \in PageIds |-> 0]
  /\ next_page_id = NumOld
  /\ status = "ok"
  /\ last = NoCall
  /\ io = <<>>
  /\ held = [p \in PageIds |-> 0]
  /\ heldFrame = [p \in PageIds |-> EMPTY]
  /\ pending = [p \in PageIds |-> EMPTY]
  /\ expected = [p \in PageIds |-> EMPTY]
  /\ eligible = {}
  /\ onDisk = 0 .. (NumOld - 1)
  /\ calls = 0

Init == BufferPoolManager(PoolSize, MaxCalls)

\* NewPageImpl lines 130-152, after AllocatePage; frame_id_tmp is 0 or what the
\* Victim call of line 123 stored
NewPageBind(s, new_page_id, frame_id_tmp) ==
  LET dio == <<DiskCall("alloc", new_page_id, 0)>> IN
  IF LtPool(s.cur_size_, s.pool_size_) THEN
    \* front() and pop_front() of an empty list are undefined: the process
    \* dies, or front() yields some frame id and the list stays empty
    LET got == IF s.free_list # <<>>
                 THEN {[s |-> [s EXCEPT !.free_list = Tail(@)], f |-> Head(s.free_list),
                        st |-> "ok"]}
                 ELSE {[s |-> s, f |-> g, st |-> "undefined"] : g \in DOMAIN s.pages}
                      \cup {[s |-> s, f |-> EMPTY, st |-> "crashed"]}
    IN {IF Dead(k.st) THEN Out(s, new_page_id, EMPTY, FALSE, FALSE, <<>>, k.st)
        ELSE Out([update_page_metadata(k.s, k.f, new_page_id)
                    EXCEPT !.cur_size_ = @ + 1],
                 new_page_id, k.f, TRUE, FALSE, dio, k.st)
        : k \in got}
  ELSE IF s.cur_size_ = s.pool_size_ THEN
    LET got == IF s.free_list # <<>>
                 THEN {[s |-> [s EXCEPT !.free_list = Tail(@)], f |-> Head(s.free_list),
                        st |-> "ok"]}
                 ELSE {[s |-> [s EXCEPT !.replacer = v.r],
                        f |-> IF v.ok THEN v.frame ELSE frame_id_tmp, st |-> v.st]
                       : v \in Victim(s.replacer)}
    IN UNION {IF Dead(k.st) THEN {Out(s, new_page_id, EMPTY, FALSE, FALSE, <<>>, k.st)}
              ELSE IF k.f \notin DOMAIN k.s.pages
                THEN {Out(s, new_page_id, EMPTY, FALSE, FALSE, <<>>, "crashed")}
              ELSE {IF Dead(e.st)
                      THEN Out(s, new_page_id, EMPTY, FALSE, FALSE, <<>>, e.st)
                      ELSE Out(update_page_metadata(e.s, k.f, new_page_id),
                               new_page_id, k.f, TRUE, FALSE, dio, Join(k.st, e.st))
                    : e \in TableErase(k.s, k.s.pages[k.f].page_id)}
              : k \in got}
  ELSE {Out(s, new_page_id, frame_id_tmp, TRUE, FALSE, dio, "ok")}

\* BufferPoolManager::NewPageImpl
NewPageImpl(s) ==
  LET full == s.cur_size_ = s.pool_size_ /\ s.free_list = <<>>
      probe == IF full THEN Victim(s.replacer)
               ELSE {[r |-> s.replacer, ok |-> TRUE, frame |-> 0, st |-> "ok"]}
  IN UNION {IF Dead(v.st)
              THEN {Out(s, INVALID_PAGE_ID, EMPTY, FALSE, FALSE, <<>>, v.st)}
            ELSE IF full /\ ~v.ok
              THEN {Out(s, INVALID_PAGE_ID, EMPTY, FALSE, FALSE, <<>>, v.st)}
            ELSE {[o EXCEPT !.st = Join(v.st, @)] :
                    o \in NewPageBind([s EXCEPT !.replacer = v.r, !.next_page_id = @ + 1],
                                      s.next_page_id, v.frame)}
            : v \in probe}

\* DeletePageImpl lines 169-175.  After the erase, page_table_[page_id]
\* (line 172) is operator[] on a missing key: it inserts page_id -> 0 and yields 0.
DeleteResident(s, page_id) ==
  LET frame_id == s.page_table[page_id]
      s1 == [s EXCEPT !.page_table = MapErase(@, page_id), !.cur_size_ = @ - 1]
      s2 == [s1 EXCEPT !.page_table = MapPut(@, page_id, 0)]
      s3 == [s2 EXCEPT !.free_list = Append(@, s2.page_table[page_id])]
  IN {Out(reset_page_metadata(s3, frame_id), page_id, frame_id, TRUE, TRUE, <<>>, "ok")}

\* BufferPoolManager::DeletePageImpl
DeletePageImpl(s, page_id) ==
  IF page_id \notin DOMAIN s.page_table
    THEN {Out(s, page_id, EMPTY, TRUE, FALSE, <<>>, "ok")}
  ELSE IF s.pages[s.page_table[page_id]].pin_count # 0
    THEN {Out(s, page_id, s.page_table[page_id], FALSE, TRUE, <<>>, "ok")}
  ELSE DeleteResident(s, page_id)

\* the orders in which a loop over an unordered_map can visit the keys K
Orders(K) ==
  {q \in [1 .. Cardinality(K) -> K] : \A i, j \in 1 .. Cardinality(K) : q[i] = q[j] => i = j}

RECURSIVE FlushEach(_, _)
FlushEach(s, order) ==
  IF order = <<>> THEN [s |-> s, io |-> <<>>]
  ELSE LET fl == FlushPageImpl(s, Head(order))
           rest == FlushEach(fl.s, Tail(order))
       IN [s |-> rest.s, io |-> fl.io \o rest.io]

\* BufferPoolManager::FlushAllPagesImpl
FlushAllPagesImpl(s) ==
  {LET r == FlushEach(s, order)
   IN Out(r.s, INVALID_PAGE_ID, EMPTY, TRUE, FALSE, r.io, "ok")
   : order \in Orders(DOMAIN s.page_table)}

\* the process is alive
Running == ~Dead(status)

\* one more call, within the bound on calls
Step ==
  /\ Running /\ calls < limit /\ calls' = calls + 1
  /\ UNCHANGED <<limit, pool_size_, threads, table>>

\* the counters stay inside the model's bounds
Bounded(s) ==
  /\ \A f \in DOMAIN s.pages : s.pages[f].pin_count \in (-MaxDebt) .. MaxPin
  /\ Len(s.free_list) <= MaxFree
  /\ s.cur_size_ >= -MaxDebt
  /\ s.replacer.cur_size >= -MaxDebt
  /\ s.next_page_id <= NumPages

\* the call's outcome o becomes the state; a call that crashed or hung leaves
\* the fields as they were
Commit(op, o, is_dirty) ==
  /\ Bounded(o.s)
  /\ pages' = o.s.pages
  /\ page_table' = o.s.page_table
  /\ free_list' = o.s.free_list
  /\ cur_size_' = o.s.cur_size_
  /\ replacer' = o.s.replacer
  /\ disk' = o.s.disk
  /\ next_page_id' = o.s.next_page_id
  /\ status' = Join(status, o.st)
  /\ io' = o.io
  /\ last' = [op |-> op, page |-> o.page, dirty |-> is_dirty, frame |-> o.frame,
              ok |-> o.ok, hit |-> o.hit]

\* ------------------------------------------------------ the pool's calls
\* a caller that was answered with a frame holds one more pin on the page
Taken(o) ==
  IF ~Dead(o.st) /\ o.ok
    THEN /\ held' = [held EXCEPT ![o.page] = @ + 1]
         /\ heldFrame' = [heldFrame EXCEPT ![o.page] = IF held[o.page] = 0 THEN o.frame ELSE @]
    ELSE UNCHANGED <<held, heldFrame>>

FetchPage(page_id) ==
  /\ Step
  /\ page_id \in onDisk
  /\ held[page_id] < MaxPin
  /\ \E o \in FetchPageImpl(Pool, page_id) :
       /\ Commit("FetchPage", o, FALSE)
       /\ Taken(o)
  /\ UNCHANGED <<pending, expected, eligible, onDisk>>

NewPage ==
  /\ Step
  /\ \E o \in NewPageImpl(Pool) :
       /\ Commit("NewPage", o, FALSE)
       /\ Taken(o)
       /\ onDisk' = IF ~Dead(o.st) /\ o.ok THEN onDisk \cup {o.page} ELSE onDisk
  /\ UNCHANGED <<pending, expected, eligible>>

\* a caller gives back a pin it holds, or names a page the pool does not have.
\* What was written counts as handed over once an unpin with is_dirty succeeds;
\* when the last pin is given back otherwise, nothing is promised about the
\* page's content any more.
UnpinPage(page_id, is_dirty) ==
  /\ Step
  /\ held[page_id] > 0 \/ page_id \notin DOMAIN page_table
  /\ \E o \in UnpinPageImpl(Pool, page_id, is_dirty) :
       /\ Commit("UnpinPage", o, is_dirty)
       /\ expected' = IF pending[page_id] = EMPTY THEN expected
                      ELSE IF ~Dead(o.st) /\ o.ok /\ is_dirty
                        THEN [expected EXCEPT ![page_id] = pending[page_id]]
                      ELSE IF held[page_id] <= 1
                        THEN [expected EXCEPT ![page_id] = EMPTY]
                      ELSE expected
       /\ pending' = IF held[page_id] <= 1 \/ (~Dead(o.st) /\ o.ok /\ is_dirty)
                       THEN [pending EXCEPT ![page_id] = EMPTY]
                       ELSE pending
  /\ held' = [held EXCEPT ![page_id] = IF @ > 0 THEN @ - 1 ELSE 0]
  /\ heldFrame' = [heldFrame EXCEPT ![page_id] = IF held[page_id] <= 1 THEN EMPTY ELSE @]
  /\ UNCHANGED <<eligible, onDisk>>

FlushPage(page_id) ==
  /\ Step
  /\ LET fl == FlushPageImpl(Pool, page_id)
     IN Commit("FlushPage",
               Out(fl.s, page_id, EMPTY, fl.ok, fl.ok, fl.io, "ok"), FALSE)
  /\ UNCHANGED <<held, heldFrame, pending, expected, eligible, onDisk>>

DeletePage(page_id) ==
  /\ Step
  /\ \E o \in DeletePageImpl(Pool, page_id) :
       /\ Commit("DeletePage", o, FALSE)
       /\ onDisk' = IF ~Dead(o.st) /\ o.ok THEN onDisk \ {page_id} ELSE onDisk
       /\ expected' = IF ~Dead(o.st) /\ o.ok THEN [expected EXCEPT ![page_id] = EMPTY]
                      ELSE expected
  /\ UNCHANGED <<held, heldFrame, pending, eligible>>

FlushAllPages ==
  /\ Step
  /\ \E o \in FlushAllPagesImpl(Pool) : Commit("FlushAllPages", o, FALSE)
  /\ UNCHANGED <<held, heldFrame, pending, expected, eligible, onDisk>>

\* a caller holding a pin on page_id writes data through the frame it was given
WriteData(page_id, data) ==
  /\ Step
  /\ held[page_id] > 0
  /\ heldFrame[page_id] \in DOMAIN pages
  /\ pages' = [pages EXCEPT ![heldFrame[page_id]].data = data]
  /\ pending' = [pending EXCEPT ![page_id] = data]
  /\ last' = [op |-> "WriteData", page |-> page_id, dirty |-> FALSE,
              frame |-> heldFrame[page_id], ok |-> TRUE, hit |-> FALSE]
  /\ io' = <<>>
  /\ UNCHANGED <<replacer, page_table, free_list, cur_size_, disk, next_page_id,
                 status, held, heldFrame, expected, eligible, onDisk>>

Next ==
  \/ \E p \in PageIds : FetchPage(p)
  \/ NewPage
  \/ \E p \in PageIds, d \in BOOLEAN : UnpinPage(p, d)
  \/ \E p \in PageIds : FlushPage(p)
  \/ \E p \in PageIds : DeletePage(p)
  \/ FlushAllPages
  \/ \E p \in PageIds, b \in Bytes : WriteData(p, b)

Spec == Init /\ [][Next]_vars

\* callers that only fetch, create, write and unpin, on a pool of SmallPool
\* frames, followed for DeepCalls calls
RoundTripNext ==
  \/ \E p \in PageIds : FetchPage(p)
  \/ NewPage
  \/ \E p \in PageIds, d \in BOOLEAN : UnpinPage(p, d)
  \/ \E p \in PageIds, b \in Bytes : WriteData(p, b)

RoundTripInit == BufferPoolManager(SmallPool, DeepCalls)

RoundTripSpec == RoundTripInit /\ [][RoundTripNext]_vars

\* a caller unpins a page the pool has although it holds no pin on it
UnpinUnheld(page_id, is_dirty) ==
  /\ Step
  /\ held[page_id] = 0
  /\ page_id \in DOMAIN page_table
  /\ \E o \in UnpinPageImpl(Pool, page_id, is_dirty) : Commit("UnpinPage", o, is_dirty)
  /\ UNCHANGED <<held, heldFrame, pending, expected, eligible, onDisk>>

\* callers that fetch, create, unpin and delete, and may unpin once too often
MisuseNext ==
  \/ \E p \in PageIds : FetchPage(p)
  \/ NewPage
  \/ \E p \in PageIds, d \in BOOLEAN : UnpinPage(p, d)
  \/ \E p \in PageIds, d \in BOOLEAN : UnpinUnheld(p, d)
  \/ \E p \in PageIds : DeletePage(p)

MisuseSpec == Init /\ [][MisuseNext]_vars

\* ------------------------------------------- the pool, called from threads
\* FetchPageImpl takes no latch: between two of its statements another thread's
\* call can run.  A thread is followed statement by statement where it reads
\* and then writes a shared field: pin_count_++ of line 52 is a load and a
\* store, and front() of line 59 comes before pop_front() of line 60.

\* FetchPageImpl lines 50-52 and 57-59: thread t looks page_id up and loads
\* pin_count_ (a hit) or free_list_.front() (a miss with a free frame)
FetchBegin(t, page_id) ==
  /\ Running /\ calls < limit /\ calls' = calls + 1
  /\ threads[t] = Idle
  /\ page_id \in onDisk
  /\ held[page_id] < MaxPin
  /\ page_id \in DOMAIN page_table \/ free_list # <<>>
  /\ threads' = [threads EXCEPT ![t] =
       IF page_id \in DOMAIN page_table
         THEN [pc |-> "store", page |-> page_id, frame |-> page_table[page_id],
               pin |-> pages[page_table[page_id]].pin_count]
         ELSE [pc |-> "pop", page |-> page_id, frame |-> Head(free_list), pin |-> 0]]
  /\ UNCHANGED <<replacer, pages, page_table, free_list, cur_size_, pool_size_, disk,
                 next_page_id, status, last, io, held, heldFrame, pending, expected,
                 eligible, onDisk, limit, table>>

\* FetchPageImpl lines 52-53: thread t stores the pin count it loaded, plus one
FetchStore(t) ==
  /\ Running
  /\ threads[t].pc = "store"
  /\ LET f == threads[t].frame
         s == [Pool EXCEPT !.pages[f].pin_count = threads[t].pin + 1]
         o == Out(s, threads[t].page, f, TRUE, TRUE, <<>>, "ok")
     IN Commit("FetchPage", o, FALSE) /\ Taken(o)
  /\ threads' = [threads EXCEPT ![t] = Idle]
  /\ UNCHANGED <<pool_size_, pending, expected, eligible, onDisk, calls, limit, table>>

\* FetchPageImpl lines 60-84: thread t pops the free list and binds the frame
\* that front() gave it; pop_front() of a list that is empty by now is undefined
FetchPop(t) ==
  /\ Running
  /\ threads[t].pc = "pop"
  /\ \E k \in (IF free_list # <<>>
                THEN {[s |-> [Pool EXCEPT !.free_list = Tail(@)], st |-> "ok"]}
                ELSE {[s |-> Pool, st |-> "undefined"], [s |-> Pool, st |-> "crashed"]}) :
       \E o \in (IF Dead(k.st)
                   THEN {Out(Pool, threads[t].page, EMPTY, FALSE, FALSE, <<>>, k.st)}
                   ELSE {[x EXCEPT !.st = Join(k.st, @)] :
                           x \in FetchMiss(k.s, threads[t].page, threads[t].frame)}) :
         Commit("FetchPage", o, FALSE) /\ Taken(o)
  /\ threads' = [threads EXCEPT ![t] = Idle]
  /\ UNCHANGED <<pool_size_, pending, expected, eligible, onDisk, calls, limit, table>>

\* threads in FetchPage, while other calls run whole
ConcurrentNext ==
  \/ \E t \in Threads, p \in PageIds : FetchBegin(t, p)
  \/ \E t \in Threads : FetchStore(t)
  \/ \E t \in Threads : FetchPop(t)
  \/ NewPage
  \/ \E p \in PageIds, d \in BOOLEAN : UnpinPage(p, d)

ConcurrentInit == BufferPoolManager(PoolSize, RaceCalls)

ConcurrentSpec == ConcurrentInit /\ [][ConcurrentNext]_vars

\* -------------------------------------------- the replacer, called directly
ReplacerPin(f) ==
  /\ Step
  /\ Pin(replacer, f).cur_size >= -MaxDebt
  /\ replacer' = Pin(replacer, f)
  /\ eligible' = eligible \ {f}
  /\ last' = Call("Pin", INVALID_PAGE_ID, FALSE, f, TRUE)
  /\ UNCHANGED <<status, poolVars>>

ReplacerUnpin(f) ==
  /\ Step
  /\ \E o \in Unpin(replacer, f) :
       /\ replacer' = o.r
       /\ status' = Join(status, o.st)
  /\ eligible' = eligible \cup {f}
  /\ last' = Call("Unpin", INVALID_PAGE_ID, FALSE, f, TRUE)
  /\ UNCHANGED poolVars

ReplacerVictim ==
  /\ Step
  /\ \E o \in Victim(replacer) :
       /\ o.r.cur_size >= -MaxDebt
       /\ replacer' = o.r
       /\ status' = Join(status, o.st)
       /\ last' = Call("Victim", INVALID_PAGE_ID, FALSE, o.frame, o.ok)
       /\ eligible' = IF o.ok THEN eligible \ {o.frame} ELSE eligible
  /\ UNCHANGED poolVars

ReplacerNext ==
  \/ \E f \in Slots(replacer) : ReplacerPin(f)
  \/ \E f \in Slots(replacer) : ReplacerUnpin(f)
  \/ ReplacerVictim

ReplacerSpec == Init /\ [][ReplacerNext]_vars

\* a replacer of three slots, called directly
ClockInit == BufferPoolManager(ClockSize, ClockCalls)

ClockSpec == ClockInit /\ [][ReplacerNext]_vars

\* ------------------------------ LinearProbeHashTable, a consumer of the pool
\* the pool's fields as BufferPoolManager(n, .) leaves them
NewPool(n) ==
  [pages |-> [f \in 0 .. (n - 1) |-> [page_id |-> INVALID_PAGE_ID, pin_count |-> 0,
                                     is_dirty |-> FALSE, data |-> 0]],
   page_table |-> <<>>, free_list |-> [i \in 1 .. n |-> i - 1], cur_size_ |-> 0,
   pool_size_ |-> n, replacer |-> ClockReplacer(n), disk |-> [p \in PageIds |-> 0],
   next_page_id |-> NumOld]

\* constructor lines 34-39: per block a NewPage, AddBlockPageId and
\* UnpinPage(., true).  NewPage's result is not tested: when it is nullptr,
\* block_page_id_tmp keeps the id of the block before, or was never set.
RECURSIVE CreateBlocks(_, _, _)
CreateBlocks(s, n, block_page_id_tmp) ==
  IF n = 0 THEN {[s |-> s, blocks |-> <<>>, st |-> "ok"]}
  ELSE UNION {
    IF Dead(a.st) THEN {[s |-> a.s, blocks |-> <<>>, st |-> a.st]}
    ELSE LET id == IF a.ok THEN a.page ELSE block_page_id_tmp IN
      IF id = INVALID_PAGE_ID
        THEN {[s |-> a.s, blocks |-> <<>>, st |-> x] : x \in {"undefined", "crashed"}}
      ELSE UNION {
        IF Dead(u.st) THEN {[s |-> u.s, blocks |-> <<id>>, st |-> u.st]}
        ELSE {[s |-> r.s, blocks |-> <<id>> \o r.blocks,
               st |-> Join(Join(a.st, u.st), r.st)] : r \in CreateBlocks(u.s, n - 1, id)}
        : u \in UnpinPageImpl(a.s, id, TRUE)}
    : a \in NewPageImpl(s)}

\* LinearProbeHashTable::LinearProbeHashTable on the pool s.  The header page
\* is created and never unpinned; its block page ids are kept in blocks.  A
\* nullptr from NewPage is dereferenced.
LinearProbeHashTable(s, num_buckets) ==
  UNION {
    IF Dead(h.st) THEN {[s |-> h.s, table |-> NoTable, st |-> h.st]}
    ELSE IF ~h.ok
      THEN {[s |-> h.s, table |-> NoTable, st |-> x] : x \in {"undefined", "crashed"}}
    ELSE {[s |-> b.s, table |-> [header_page_id_ |-> h.page, blocks |-> b.blocks],
           st |-> Join(h.st, b.st)] : b \in CreateBlocks(h.s, num_buckets, INVALID_PAGE_ID)}
    : h \in NewPageImpl(s)}

\* a pool of PoolSize frames and a hash table of NumBuckets blocks on it
HashInit ==
  \E c \in LinearProbeHashTable(NewPool(PoolSize), NumBuckets) :
    LET header == c.table.header_page_id_ IN
    /\ threads = [t \in Threads |-> Idle]
    /\ table = c.table
    /\ pool_size_ = PoolSize
    /\ limit = HashCalls
    /\ replacer = c.s.replacer
    /\ pages = c.s.pages
    /\ page_table = c.s.page_table
    /\ free_list = c.s.free_list
    /\ cur_size_ = c.s.cur_size_
    /\ disk = c.s.disk
    /\ next_page_id = c.s.next_page_id
    /\ status = c.st
    /\ last = NoCall
    /\ io = <<>>
    /\ held = [p \in PageIds |-> IF p = header THEN 1 ELSE 0]
    /\ heldFrame = [p \in PageIds |->
                      IF p = header /\ p \in DOMAIN c.s.page_table
                        THEN c.s.page_table[p] ELSE EMPTY]
    /\ pending = [p \in PageIds |-> EMPTY]
    /\ expected = [p \in PageIds |-> EMPTY]
    /\ eligible = {}
    /\ onDisk = 0 .. (c.s.next_page_id - 1)
    /\ calls = 0

\* the pages of the hash table
TablePages == {table.header_page_id_} \cup {table.blocks[i] : i \in DOMAIN table.blocks}

\* header_page_->GetBlockPageId(hash_res % num_blocks_)
GetBlockPageId(hash_res) == table.blocks[(hash_res % Len(table.blocks)) + 1]

\* the values a slot can hold; a block page is kept as one slot, the frame's
\* data: 0 is a slot that is not occupied
Values == 1 .. MaxByte

\* the probe of the fetched block page, o being FetchPage's outcome: GetValue
\* reads the slots and returns true; Insert returns false for a value the
\* block has or a full block, else writes the value; Remove empties the slot
\* that holds the value
Access(op, o, value) ==
  LET data == o.s.pages[o.frame].data IN
  IF op = "Insert"
    THEN IF data # 0 THEN [o EXCEPT !.ok = FALSE]
         ELSE [o EXCEPT !.s.pages[o.frame].data = value]
  ELSE IF op = "Remove"
    THEN IF data = value THEN [o EXCEPT !.s.pages[o.frame].data = 0]
         ELSE [o EXCEPT !.ok = FALSE]
  ELSE o

\* what GetValue, Insert and Remove share: FetchPage(block_page_id)->GetData()
\* and the probe of the block page, and no UnpinPage.  A nullptr from
\* FetchPage is dereferenced.
TableCall(op, hash_res, value) ==
  /\ Step
  /\ table # NoTable
  /\ LET block_page_id == GetBlockPageId(hash_res) IN
     /\ held[block_page_id] < MaxPin
     /\ \E o \in FetchPageImpl(Pool, block_page_id) :
          IF Dead(o.st)
            THEN Commit(op, o, FALSE) /\ UNCHANGED <<held, heldFrame, pending>>
          ELSE IF ~o.ok
            THEN /\ \E x \in {"undefined", "crashed"} :
                      Commit(op, [o EXCEPT !.st = x], FALSE)
                 /\ UNCHANGED <<held, heldFrame, pending>>
          ELSE LET a == Access(op, o, value) IN
            /\ Commit(op, a, FALSE)
            /\ Taken(o)
            /\ pending' = IF a.s.pages[o.frame].data = o.s.pages[o.frame].data
                            THEN pending
                            ELSE [pending EXCEPT ![block_page_id] = a.s.pages[o.frame].data]
  /\ UNCHANGED <<expected, eligible, onDisk>>

\* LinearProbeHashTable::GetValue
GetValue(hash_res) ==
  /\ table # NoTable
  /\ TableCall("GetValue", hash_res, 0)

\* LinearProbeHashTable::Insert
Insert(hash_res, value) ==
  /\ table # NoTable
  /\ TableCall("Insert", hash_res, value)

\* LinearProbeHashTable::Remove
Remove(hash_res, value) ==
  /\ table # NoTable
  /\ TableCall("Remove", hash_res, value)

\* the hash table's calls, and another consumer's on the pages that are not
\* the table's
HashNext ==
  \/ \E h \in Bytes : GetValue(h)
  \/ \E h \in Bytes, v \in Values : Insert(h, v)
  \/ \E h \in Bytes, v \in Values : Remove(h, v)
  \/ \E p \in PageIds \ TablePages : FetchPage(p)
  \/ \E p \in PageIds \ TablePages, d \in BOOLEAN : UnpinPage(p, d)

HashSpec == HashInit /\ [][HashNext]_vars

\* ---------------------------------------------------------- pool claims
\* the manager's fields and the disk are as before the step
PoolUnchanged ==
  UNCHANGED <<pages, page_table, free_list, cur_size_, replacer, disk, next_page_id>>

Occurrences(q, x) == Cardinality({i \in 1 .. Len(q) : q[i] = x})

Writes(dio) == {i \in 1 .. Len(dio) : dio[i].op = "write"}

\* C1: from a successful FetchPage(p) or NewPage() returning p until the
\* matching UnpinPage(p), p stays resident in the frame the caller was given,
\* with pin_count >= 1 (a frame with pin_count > 0 is never rebound).
C1_PinnedStaysResident ==
  status = "ok" =>
    \A p \in PageIds :
      held[p] > 0 =>
        /\ p \in DOMAIN page_table
        /\ page_table[p] = heldFrame[p]
        /\ pages[heldFrame[p]].page_id = p
        /\ pages[heldFrame[p]].pin_count >= 1

\* C2: after pool_size_ successful NewPage/FetchPage calls on distinct pages and
\* no other call, the next NewPage, and the next FetchPage of a page that is
\* not resident, return failure.
C2_FullPoolRefuses ==
  [][(/\ calls = pool_size_
      /\ Cardinality({p \in PageIds : held[p] = 1}) = pool_size_
      /\ \/ last'.op = "NewPage"
         \/ last'.op = "FetchPage" /\ last'.page \notin DOMAIN page_table)
     => (status' = status /\ ~last'.ok /\ last'.frame = EMPTY)]_vars

\* C3: DeletePage(p) on a resident page with pin_count 0 returns success; then
\* p has no page-table entry, its frame is reset (no page, pin_count 0, clean,
\* zeroed), exactly that frame id was added to the free list, and
\* deallocate_page(p) was called exactly once.
C3_DeleteReleasesFrame ==
  [][\A p \in PageIds :
       (/\ status = "ok"
        /\ last'.op = "DeletePage" /\ last'.page = p
        /\ p \in DOMAIN page_table
        /\ pages[page_table[p]].page_id = p
        /\ pages[page_table[p]].pin_count = 0)
       => LET f == page_table[p] IN
          /\ status' = status /\ last'.ok
          /\ p \notin DOMAIN page_table'
          /\ pages'[f] = [page_id |-> INVALID_PAGE_ID, pin_count |-> 0,
                          is_dirty |-> FALSE, data |-> 0]
          /\ Len(free_list') = Len(free_list) + 1
          /\ Occurrences(free_list', f) = Occurrences(free_list, f) + 1
          /\ io' = <<DiskCall("dealloc", p, 0)>>]_vars

\* a frame holds page p
Resident(p) == \E f \in DOMAIN pages : pages[f].page_id = p

\* C4: a DeletePage(p) that removes no page changes nothing: with p resident
\* and pin_count # 0 it returns failure, with p not resident (no frame holds
\* it) it returns success, and the manager's fields, the replacer and the disk
\* are as before the call.
C4_DeleteRefusedIsNoOp ==
  [][\A p \in PageIds :
       (status = "ok" /\ last'.op = "DeletePage" /\ last'.page = p) =>
         /\ (/\ p \in DOMAIN page_table
             /\ pages[page_table[p]].page_id = p
             /\ pages[page_table[p]].pin_count # 0)
              => (status' = status /\ ~last'.ok /\ io' = <<>> /\ PoolUnchanged)
         /\ ~Resident(p)
              => (status' = status /\ last'.ok /\ io' = <<>> /\ PoolUnchanged)]_vars

C7_RoundTrip ==
  (status = "ok" /\ last.op = "FetchPage" /\ last.ok /\ ~last.hit) =>
    ((expected[last.page] # EMPTY /\ pending[last.page] = EMPTY)
       => pages[last.frame].data = expected[last.page])

\* C8: FlushPage(p) on a resident page makes exactly one write_page(p, bytes of
\* p's frame), dirty or not; FlushAllPages makes that write exactly once for
\* every resident page.
C8_FlushWritesOnce ==
  [][/\ \A p \in PageIds :
          (last'.op = "FlushPage" /\ last'.page = p /\ p \in DOMAIN page_table)
          => /\ status' = status /\ last'.ok
             /\ io' = <<DiskCall("write", p, pages[page_table[p]].data)>>
             /\ disk'[p] = pages[page_table[p]].data
     /\ last'.op = "FlushAllPages"
          => /\ status' = status
             /\ Len(io') = Cardinality(DOMAIN page_table)
             /\ \A p \in DOMAIN page_table :
                  /\ Cardinality({i \in Writes(io') : io'[i].page = p}) = 1
                  /\ \E i \in Writes(io') :
                       io'[i] = DiskCall("write", p, pages[page_table[p]].data)
                  /\ disk'[p] = pages[page_table[p]].data]_vars

C8_Witness ==
  /\ last.op = "FlushAllPages" /\ status = "ok"
  /\ Len(io) = 2
  /\ \E i \in 1 .. 2 : io[i].data # 0
  /\ \E p \in DOMAIN page_table :
       ~pages[page_table[p]].is_dirty /\ pages[page_table[p]].page_id = p

\* C11: with FetchPage, NewPage and UnpinPage called from several threads,
\* every call takes effect as one atomic critical section: what a FetchPage
\* leaves when it returns is what FetchPageImpl, run whole on the state just
\* before, would leave (no pin_count update is lost, no frame is handed to two
\* page ids).
C11_CallsAreAtomic ==
  [][\A t \in Threads :
       (status = "ok" /\ threads[t].pc # "idle" /\ threads'[t].pc = "idle") =>
         \E o \in FetchPageImpl(Pool, threads[t].page) :
           /\ pages' = o.s.pages
           /\ page_table' = o.s.page_table
           /\ free_list' = o.s.free_list
           /\ last'.frame = o.frame]_vars

\* C12: no frame id is both in the free list and bound in the page table (a
\* frame whose pin_count drops to zero does not enter the free list).
C12_FreeListHoldsUnbound ==
  status = "ok" =>
    \A i \in 1 .. Len(free_list) :
      \A p \in DOMAIN page_table : page_table[p] # free_list[i]

\* C13: page_table[pid] = fid if and only if frames[fid].page_id = pid, for
\* all page ids pid and frame ids fid.
C13_TableAgreesWithFrames ==
  status = "ok" =>
    \A pid \in PageIds, fid \in DOMAIN pages :
      (pid \in DOMAIN page_table /\ page_table[pid] = fid) <=> (pages[fid].page_id = pid)

\* the replacer would hand frame f out: a slot holds f and is not tombstoned
Evictable(r, f) == \E i \in Slots(r) : r.buckets[i] = f /\ Live(r, i)

\* C14: a frame with pin_count > 0 is not in the replacer's eligible set, also
\* after a FetchPage hit on a page whose pin_count had dropped to zero.
C14_PinnedNotEvictable ==
  status = "ok" =>
    \A f \in DOMAIN pages : pages[f].pin_count > 0 => ~Evictable(replacer, f)

\* C15: every frame's pin_count is >= 0 after any FetchPage, NewPage, UnpinPage
\* and DeletePage calls, an UnpinPage of a resident page with pin_count 0
\* included.
C15_PinCountNotNegative ==
  status = "ok" => \A f \in DOMAIN pages : pages[f].pin_count >= 0

\* ------------------------------------------------------ replacer claims

\* C9: victim() returns a frame only if that frame is eligible (unpinned more
\* recently than pinned and not returned by victim() since), and it signals
\* "none available" exactly when no frame is eligible.
C9_VictimReturnsEligible ==
  [][(status = "ok" /\ last'.op = "Victim") =>
       /\ status' = "ok"
       /\ last'.ok <=> (eligible # {})
       /\ last'.ok => last'.frame \in eligible]_vars

\* C10: after any pin/unpin/victim calls, size() equals the number of eligible
\* frames, is never negative and never exceeds the capacity.
C10_SizeCountsEligible ==
  status = "ok" =>
    /\ Size(replacer) = Cardinality(eligible)
    /\ Size(replacer) >= 0
    /\ Size(replacer) <= replacer.capacity

\* the slot i steps after the hand, in ring order
RingSlot(r, i) == ((r.clock_hand % r.capacity) + i) % r.capacity

\* the steps from the hand to the eligible slots whose reference bit is not 1
BitZeroSteps(r) ==
  {i \in Slots(r) : Live(r, RingSlot(r, i)) /\ r.ref_bits[RingSlot(r, i)] # 1}

\* C16: victim() scans the ring from the hand, skips empty and tombstoned
\* slots, clears the reference bit of every eligible frame with bit 1 it
\* passes and returns the first eligible frame with bit 0; so after unpin(0),
\* unpin(1), unpin(2) on a fresh replacer of size 3 it returns 0, and after
\* unpin(0), unpin(1), pin(0), unpin(0) it returns 1 and then 0.
C16_ClockOrder ==
  [][(status = "ok" /\ last'.op = "Victim" /\ BitZeroSteps(replacer) # {}) =>
       LET n == Min(BitZeroSteps(replacer)) IN
         /\ status' = "ok"
         /\ last'.ok
         /\ last'.frame = replacer.buckets[RingSlot(replacer, n)]
         /\ \A i \in 0 .. (n - 1) :
              Live(replacer, RingSlot(replacer, i)) =>
                replacer'.ref_bits[RingSlot(replacer, i)] = 0]_vars

\* the frames in eligible slots
LiveFrames(r) == {r.buckets[i] : i \in {j \in Slots(r) : Live(r, j)}}

\* the counted sweep of Victim ends without a victim: every eligible slot has
\* reference bit 1 and the count is spent before the hand is back at one
FullSweep(r) ==
  /\ BitZeroSteps(r) = {}
  /\ 0 < r.cur_size
  /\ r.cur_size <= Cardinality({i \in Slots(r) : Live(r, i)})

\* C17: when a full counted sweep finds no reference-bit-0 slot, victim()
\* returns the smallest frame id among the eligible (not tombstoned) frames
\* and removes it: no slot holds it any more and size() drops by one.
C17_FallbackSmallest ==
  [][(status = "ok" /\ last'.op = "Victim" /\ FullSweep(replacer)) =>
       /\ status' = "ok"
       /\ last'.ok
       /\ last'.frame = Min(LiveFrames(replacer))
       /\ \A i \in Slots(replacer') : replacer'.buckets[i] # last'.frame
       /\ Size(replacer') = Size(replacer) - 1]_vars

\* C18: every call to victim() terminates, after at most size() counted
\* steps, in every state that pin/unpin/victim calls can reach, those where a
\* tombstoned frame's slot was reused by a newly unpinned frame and the
\* tombstoned frame was unpinned later included.
C18_VictimTerminates ==
  [][(status = "ok" /\ last'.op = "Victim") => status' # "hung"]_vars

\* C19: unpin(f) on a frame that is already eligible is a no-op: size(), the
\* hand, every slot and every reference bit are unchanged, so unpin(f);
\* unpin(f) leaves the same state as a single unpin(f).
C19_UnpinEligibleIsNoOp ==
  [][(status = "ok" /\ last'.op = "Unpin" /\ last'.frame \in eligible) =>
       /\ status' = "ok"
       /\ replacer' = replacer
       /\ Size(replacer') = Size(replacer)]_vars

\* ---------------------------------------------------- hash table claims
\* the pin_count of the frame that holds page p, 0 when no frame does
PinOf(pt, fr, p) == IF p \in DOMAIN pt THEN fr[pt[p]].pin_count ELSE 0

\* C20: every GetValue, Insert and Remove call unpins the block page it
\* fetched exactly once before it returns, so the block page's pin_count after
\* the call equals its value before the call.
C20_HashPinsBalanced ==
  [][(status = "ok" /\ last'.op \in {"GetValue", "Insert", "Remove"}) =>
       /\ status' = "ok"
       /\ PinOf(page_table', pages', last'.page) = PinOf(page_table, pages, last'.page)]_vars

====
